---- MODULE Spec2Model ----
(***************************************************************************)
(* WorldSignal: the ingestion pipeline (app/fetcher/pipeline.py), the      *)
(* vector store wrapper (app/rag/vector_store.py) and the streaming chat   *)
(* endpoint (app/api/chat.py, app/llm/base.py) as state machines.          *)
(*                                                                         *)
(*   Spec        interleaved ingestion runs over the Article Store         *)
(*               (news_items) and the Vector Index (points)                *)
(*   SpecRuns    two runs at the last source                               *)
(*   SpecMismatch  a run against a collection of another vector size       *)
(*   SpecUpsert  direct calls of VectorStore.upsert_vectors                *)
(*   SpecWriters  concurrent upsert_vectors calls without ids              *)
(*   SpecCollection  init_collection, delete_collection and writers        *)
(*   SpecSearch  direct calls of VectorStore.search                        *)
(*   SpecChunker  the text splitter on texts with blanks and line breaks   *)
(*   SpecChat    one chat request: retrieval, prompt, event stream         *)
(*   SpecChatIngest  a chat request while an ingestion run is writing      *)
(*   SpecCredentials  a run with or without the API source's credential    *)
(*   SpecRerun   a run, and a later run after it has ended                 *)
(*   SpecDates   the fetchers' date resolution on the raw dates of a       *)
(*               response                                                  *)
(***************************************************************************)
EXTENDS Integers, Sequences, FiniteSets, TLC

\* ----------------------------------------------------------------- bounds
\* the longest list one fetch returns
MaxArticles == 2
\* the largest batch of a direct upsert_vectors call, and the largest
\* collection such calls build
MaxBatch == 2
MaxPoints == 3
\* the most chunks the generation backend streams for one request
MaxFragments == 3
\* the largest limit of a direct search call
MaxLimit == 2
\* the longest text and the largest chunk size the chunker is tried on
MaxText == 4
MaxChunkSize == 4
\* the chunks the generation backend streams to a chat request that is
\* interleaved with an ingestion run
MaxStreamed == 1

\* ------------------------------------------------------- program constants
\* settings.chunk_size / settings.chunk_overlap, scaled from 800 / 100
chunk_size == 3
chunk_overlap == 1

\* len(SOURCES), scaled from 7
NumSources == 3

\* chat's top-k, and retrieve's default similarity floor 0.3 in tenths
limit == 5
score_threshold == 3

\* Python's None where an article id is expected (ids start at 1)
None == 0

\* settings.vector_size, scaled from 384, and the values VECTOR_SIZE has in
\* the processes that share the index
vector_size == 2

VectorSizes == {vector_size, vector_size + 1}

\* the length of the vectors the embedding model (settings.embedding_model)
\* returns
embedding_dim == 2

\* the ingestion runs (run_ingestion calls) that may be in progress
Runs == {1, 2}

Categories == {"finance", "geopolitics"}

\* SOURCES: a static list of feeds and APIs, each tagged with a category
SOURCES == [s \in 1..NumSources |->
              [type     |-> IF s = NumSources THEN "api" ELSE "rss",
               category |-> IF s % 2 = 1 THEN "finance" ELSE "geopolitics"]]

URLs == {"u1", "u2"}

\* article text: a sequence of characters without separators
Contents == {<< >>, <<"a", "b", "c", "d">>}

\* the title an entry carries: the versions of an article differ in their
\* text and in their title
Title(content) == IF content = << >> THEN "t" ELSE "T"

\* a candidate article as the fetchers build it: {title, url, content}
Candidates == {[title |-> Title(c), url |-> u, content |-> c] : u \in URLs, c \in Contents}

VARIABLES
  news_items,  \* Article Store: the rows of table news_items
  points,      \* Vector Index: the collection, point id -> [vector, payload]
  pc,          \* per run: position in IngestionPipeline.run / process_article
  src,         \* per run: index into SOURCES of the source being visited
  articles,    \* per run: len(articles), the list the current fetch returned
  idx,         \* per run: index into articles of the article being processed
  article,     \* per run: the loop variable article, articles[idx]
  news_item,   \* per run: id of the row store_article returned, or None
  chunks,      \* per run: the chunks of the current article
  vectors,     \* per run: what embedder.embed returned for the chunks
  fetched,     \* history, per run: the sources whose fetch was attempted
  skipped,     \* history, per run: <<source, index>> of the fetched articles
               \* the run left behind without calling process_article on them
  fetch_error, \* history, per run: the last source whose fetch raised (0: none)
  article_error, \* history, per run: the last article of the current source
               \* whose process_article raised (0: none)
  lost,        \* history, per run: the well-formed entries of the response whose
               \* conversion to candidates raised (reset when the handler is left)
  collection,  \* Vector Index: whether the collection exists, and its vector size
  uuids,       \* the largest identifier uuid.uuid4() has returned so far
  dim_error,   \* history, per run: an upsert of the run was rejected because
               \* the vectors do not have the collection's size
  pending,     \* per direct writer: the upsert_vectors call in progress
  call,        \* the last direct call of the vector store: the argument lengths
               \* of an upsert_vectors call and whether it raised, or the
               \* arguments of a search call
  chat_pc,     \* position of the chat request and of its generator generate()
  request,     \* the ChatRequest: query and category
  results,     \* chat: the hits retriever.retrieve returned
  context_parts, \* chat: the numbered chunk texts of the context block
  sources,     \* chat: the citation list
  prompt,      \* chat: the prompt handed to llm.stream
  demand,      \* whether the consumer of the response is waiting for an event
  events,      \* the events generate() has yielded, in order
  backend_out, \* history: the texts of the chunks the generation backend
               \* has produced, in order
  newsapi_key, \* settings.newsapi_key is set: the credential of the API source
  requests,    \* history, per run: the sources the run has sent a request to
  sessions     \* per run: the storage sessions the run has opened and not closed

ingest_vars == <<news_items, points, pc, src, articles, idx, article, news_item,
                 chunks, vectors, fetched, requests, skipped, fetch_error, article_error, lost,
                 newsapi_key, sessions>>

chat_vars == <<chat_pc, request, results, context_parts, sources, prompt, demand,
               events, backend_out>>

index_vars == <<collection, uuids, dim_error, pending>>

vars == <<ingest_vars, index_vars, call, chat_vars>>

RECURSIVE SeqsUpTo(_, _)
SeqsUpTo(S, n) ==
  IF n = 0 THEN {<< >>}
  ELSE LET shorter == SeqsUpTo(S, n - 1)
       IN  shorter \cup {Append(q, x) : q \in {p \in shorter : Len(p) = n - 1}, x \in S}

\* ------------------------------------------------------------ Text Chunker
\* RecursiveCharacterTextSplitter(chunk_size, chunk_overlap) of
\* langchain_text_splitters, with its defaults keep_separator=True and
\* strip_whitespace=True. Its separators ["\n\n", "\n", " ", ""] are scaled to
\* one line break, the blank and the empty separator.
Separators == <<"\n", " ", "">>

Whitespace == {"\n", " "}

Min(a, b) == IF a < b THEN a ELSE b

\* str.strip()
RECURSIVE LStrip(_)
LStrip(s) == IF s # << >> /\ Head(s) \in Whitespace THEN LStrip(Tail(s)) ELSE s

RECURSIVE RStrip(_)
RStrip(s) ==
  IF s # << >> /\ s[Len(s)] \in Whitespace THEN RStrip(SubSeq(s, 1, Len(s) - 1)) ELSE s

Strip(s) == RStrip(LStrip(s))

\* _split_text_with_regex(text, separator, keep_separator=True): the pieces
\* between the separators, each separator kept at the head of the piece
\* that follows it, the empty pieces dropped; list(text) for separator ""
RECURSIVE PiecesFrom(_, _, _)
PiecesFrom(text, sep, start) ==
  IF start > Len(text) THEN << >>
  ELSE LET later == {i \in (start + 1)..Len(text) : text[i] = sep}
           end   == IF later = {} THEN Len(text) + 1
                    ELSE CHOOSE i \in later : \A k \in later : i <= k
       IN  <<SubSeq(text, start, end - 1)>> \o PiecesFrom(text, sep, end)

SplitWithSeparator(text, sep) ==
  IF sep = "" THEN [i \in 1..Len(text) |-> <<text[i]>>]
  ELSE PiecesFrom(text, sep, 1)

RECURSIVE Total(_)
Total(docs) == IF docs = << >> THEN 0 ELSE Len(Head(docs)) + Total(Tail(docs))

RECURSIVE Join(_)
Join(docs) == IF docs = << >> THEN << >> ELSE Head(docs) \o Join(Tail(docs))

\* _join_docs: the joined and stripped text, or no chunk if nothing is left
JoinDocs(docs) == LET text == Strip(Join(docs)) IN IF text = << >> THEN << >> ELSE <<text>>

\* (a merge that starts every chunk with nothing of the one before)
PopFrontAll(cur, len, size, overlap) == << >>

\* _merge_splits: while total > chunk_overlap or (total + len > chunk_size
\* and total > 0): drop the first piece of current_doc
RECURSIVE PopFront(_, _, _, _)
PopFront(cur, len, size, overlap) ==
  IF Total(cur) > overlap \/ (Total(cur) + len > size /\ Total(cur) > 0)
  THEN PopFront(Tail(cur), len, size, overlap)
  ELSE cur

\* _merge_splits(splits, ""): pieces are collected while they fit into
\* chunk_size; a piece that does not fit closes the chunk, and the next chunk
\* starts with the last pieces of the closed one, up to chunk_overlap
RECURSIVE MergeSplits(_, _, _, _, _)
MergeSplits(splits, cur, docs, size, overlap) ==
  IF splits = << >> THEN docs \o JoinDocs(cur)
  ELSE LET d      == Head(splits)
           closes == Total(cur) + Len(d) > size /\ cur # << >>
           docs2  == IF closes THEN docs \o JoinDocs(cur) ELSE docs
           cur2   == IF closes THEN PopFront(cur, Len(d), size, overlap) ELSE cur
       IN  MergeSplits(Tail(splits), Append(cur2, d), docs2, size, overlap)

Merged(good, size, overlap) ==
  IF good = << >> THEN << >> ELSE MergeSplits(good, << >>, << >>, size, overlap)

\* the separator _split_text works with: the first of the list that is ""
\* or occurs in the text
FirstSeparator(text, seps) ==
  CHOOSE k \in 1..Len(seps) :
    /\ seps[k] = "" \/ \E i \in 1..Len(text) : text[i] = seps[k]
    /\ \A j \in 1..(k - 1) : seps[j] # "" /\ \A i \in 1..Len(text) : text[i] # seps[j]

RECURSIVE SplitRecursive(_, _, _, _)
RECURSIVE GoodSplits(_, _, _, _, _, _)
\* _split_text's loop over the splits: a piece shorter than chunk_size is
\* collected for merging; a longer one is split with the separators that are
\* left (or kept whole when none is left)
GoodSplits(splits, good, final, seps, size, overlap) ==
  IF splits = << >> THEN final \o Merged(good, size, overlap)
  ELSE LET s == Head(splits)
       IN  IF Len(s) < size
           THEN GoodSplits(Tail(splits), Append(good, s), final, seps, size, overlap)
           ELSE GoodSplits(Tail(splits), << >>,
                           final \o Merged(good, size, overlap)
                                 \o (IF seps = << >> THEN <<s>>
                                     ELSE SplitRecursive(s, seps, size, overlap)),
                           seps, size, overlap)

\* RecursiveCharacterTextSplitter._split_text(text, separators)
SplitRecursive(text, seps, size, overlap) ==
  LET k    == FirstSeparator(text, seps)
      rest == IF seps[k] = "" THEN << >> ELSE SubSeq(seps, k + 1, Len(seps))
  IN  GoodSplits(SplitWithSeparator(text, seps[k]), << >>, << >>, rest, size, overlap)

\* self.chunker.split_text(text) of the pipeline's chunker, for the texts its
\* articles carry
Chunks == [text \in Contents |-> SplitRecursive(text, Separators, chunk_size, chunk_overlap)]

split_text(text) == Chunks[text]

\* ------------------------------------------------------ Embedding Provider
\* Embedder.embed: one vector per text; a vector is abstracted to a small
\* integer determined by the text.
EmbedText(text) == Len(text)

embed(texts) == [i \in 1..Len(texts) |-> EmbedText(texts[i])]

\* ------------------------------------------------------------ Vector Index
PointIds == DOMAIN points

MaxPointId == IF PointIds = {} THEN 0
              ELSE CHOOSE m \in PointIds : \A i \in PointIds : i <= m

Max(a, b) == IF a > b THEN a ELSE b

\* uuid.uuid4(): an identifier that no earlier call returned and no record has
Fresh == Max(MaxPointId, uuids)

\* (identifiers counted on from the size of the collection)
uuid4sSequential(n) == [k \in 1..n |-> Cardinality(PointIds) + k]

\* ids = [str(uuid.uuid4()) for _ in range(len(vectors))]
uuid4s(n) == [k \in 1..n |-> Fresh + k]

\* the collection as the index knows it
NoCollection == [exists |-> FALSE, size |-> 0]

Collection(size) == [exists |-> TRUE, size |-> size]

\* client.upsert fails: there is no collection, or the vectors (of length dim)
\* do not have its size
ClientRejects(meta, dim, n) == ~meta.exists \/ (n > 0 /\ meta.size # dim)

\* (upsert_vectors without its first validation)
LengthMismatchNoCheck(vs, ps) == FALSE

\* upsert_vectors: if len(vectors) != len(payloads): raise ValueError
LengthMismatch(vs, ps) == Len(vs) # Len(ps)

\* (upsert_vectors without its validation of the ids)
IdsMismatchNoCheck(ids, vs) == FALSE

\* upsert_vectors: if len(ids) != len(vectors): raise ValueError
IdsMismatch(ids, vs) == Len(ids) # Len(vs)

\* zip(ids, vectors, payloads): as long as the shortest of the three
ZipLen(ids, vs, ps) == Min(Len(ids), Min(Len(vs), Len(ps)))

\* client.upsert(points): insert, or overwrite the record of the same id
\* (of two points of one batch with the same id, the later stays)
ClientUpsert(coll, ids, vs, ps) ==
  LET n   == ZipLen(ids, vs, ps)
      new == {ids[k] : k \in 1..n}
      last(i) == CHOOSE k \in 1..n : ids[k] = i /\ \A j \in 1..n : ids[j] = i => j <= k
  IN  [i \in DOMAIN coll \cup new |->
         IF i \in new THEN [vector |-> vs[last(i)], payload |-> ps[last(i)]]
         ELSE coll[i]]

\* VectorStore.upsert_vectors(vectors, payloads, ids) with vectors of length
\* dim, on collection coll (meta: its existence and size), with fresh the
\* identifiers generated when ids is omitted (given = FALSE): whether it
\* raised (rejected: by the index), the collection after it and the largest
\* identifier uuid4 has returned.
upsert_vectors(meta, dim, coll, vs, ps, given, ids0, fresh) ==
  IF LengthMismatch(vs, ps)
  THEN [raised |-> TRUE, rejected |-> FALSE, coll |-> coll, uuids |-> uuids]
  ELSE LET ids  == IF given THEN ids0 ELSE fresh
           last == IF given \/ Len(fresh) = 0 THEN uuids ELSE Max(uuids, fresh[Len(fresh)])
       IN  IF IdsMismatch(ids, vs)
           THEN [raised |-> TRUE, rejected |-> FALSE, coll |-> coll, uuids |-> last]
           ELSE IF ClientRejects(meta, dim, Len(vs))
           THEN [raised |-> TRUE, rejected |-> TRUE, coll |-> coll, uuids |-> last]
           ELSE [raised |-> FALSE, rejected |-> FALSE,
                 coll |-> ClientUpsert(coll, ids, vs, ps), uuids |-> last]

\* ----------------------------------------------------------- Article Store
\* db = SessionLocal(): the operation opens a storage session
SessionLocal(n) == n + 1

\* db.close()
close(n) == n - 1

\* (a close at the end of the try block: skipped when the block raises)
CloseUnlessRaised(n, raised) == IF raised THEN n ELSE close(n)

\* finally: db.close(), on return and on every exception
Finally(n, raised) == close(n)

\* is_duplicate / store_article from SessionLocal() to the end of its finally
WithSession(r, raised) ==
  sessions' = [sessions EXCEPT ![r] = Finally(SessionLocal(@), raised)]

\* (an is_duplicate that finds nothing)
is_duplicateNever(url) == FALSE

\* db.query(NewsItem).filter(NewsItem.url == url).first() is not None
is_duplicate(url) == \E n \in news_items : n.url = url

\* (column url without unique=True)
UniqueViolationNever(url) == FALSE

\* the unique constraint of column url: a commit with a stored url raises
\* IntegrityError
UniqueViolation(url) == \E n \in news_items : n.url = url

\* the primary key the store assigns to a new row
NextId == IF news_items = {} THEN 1
          ELSE 1 + (CHOOSE m \in {n.id : n \in news_items} :
                      \A n \in news_items : n.id <= m)

NewsItem(a, category) ==
  [id |-> NextId, title |-> a.title, url |-> a.url, content |-> a.content,
   category |-> category]

\* (a store_article that answers a rejected insert with the stored row)
OnIntegrityErrorReturnExisting(url) == (CHOOSE n \in news_items : n.url = url).id

\* store_article's except IntegrityError branch: rollback, return None
OnIntegrityError(url) == None

\* ------------------------------------------------------- Ingestion Pipeline
\* The entries of a fetched list are opaque to run until its loop reaches
\* them: the fetch fixes len(articles), and each entry is drawn when the loop
\* binds it to the loop variable.
NoArticle == [title |-> "", url |-> "", content |-> << >>]

Category(r) == SOURCES[src[r]].category

\* process_article's locals go out of scope
DropLocals(r) ==
  /\ news_item' = [news_item EXCEPT ![r] = None]
  /\ chunks' = [chunks EXCEPT ![r] = << >>]
  /\ vectors' = [vectors EXCEPT ![r] = << >>]

\* for source in SOURCES: the loop moves to the next source, or ends
NextSource(r) ==
  /\ src' = [src EXCEPT ![r] = @ + 1]
  /\ pc' = [pc EXCEPT ![r] = IF src[r] + 1 > NumSources THEN "done" ELSE "fetch"]
  /\ articles' = [articles EXCEPT ![r] = 0]
  /\ idx' = [idx EXCEPT ![r] = 0]
  /\ article' = [article EXCEPT ![r] = NoArticle]
  /\ skipped' = [skipped EXCEPT ![r] =
                   @ \cup {<<src[r], i>> : i \in (idx[r] + 1)..articles[r]}]
  /\ article_error' = [article_error EXCEPT ![r] = 0]

\* for article in articles: the loop binds the next entry, or the list ends
NextArticle(r) ==
  IF idx[r] < articles[r]
  THEN /\ idx' = [idx EXCEPT ![r] = @ + 1]
       /\ \E a \in Candidates : article' = [article EXCEPT ![r] = a]
       /\ pc' = [pc EXCEPT ![r] = "is_duplicate"]
       /\ UNCHANGED <<src, articles, skipped, article_error>>
  ELSE NextSource(r)

\* (a run without the inner try: the exception reaches the outer handler)
OnArticleExceptionSkipSource(r) == NextSource(r)

\* run's inner handler: except Exception: continue
OnArticleException(r) == NextArticle(r)

\* (a run without the outer try: the exception leaves run)
OnSourceExceptionAbort(r) ==
  /\ pc' = [pc EXCEPT ![r] = "raised"]
  /\ UNCHANGED <<src, articles, idx, article, skipped, article_error>>

\* run's outer handler: except Exception: continue
OnSourceException(r) == NextSource(r)

\* an exception leaves process_article and reaches run's inner handler
Raise(r) ==
  /\ pc' = [pc EXCEPT ![r] = "except_article"]
  /\ article_error' = [article_error EXCEPT ![r] = idx[r]]
  /\ DropLocals(r)
  /\ UNCHANGED <<src, articles, idx, article, skipped>>

\* process_article returns
Return(r) == NextArticle(r) /\ DropLocals(r)

\* (a fetch_api that does not look at the credential)
CredentialAbsentNever(s) == FALSE

\* fetch_api: if name == "newsapi" and self.settings.newsapi_key: ... return []
\* (the source is an API and its credential is not set)
CredentialAbsent(s) == SOURCES[s].type = "api" /\ ~newsapi_key

\* the lengths of the list a fetch may return: fetch_api returns [] without
\* a request when the credential is absent
Fetchable(s) == IF CredentialAbsent(s) THEN {0} ELSE 0..MaxArticles

\* the client sends the request of the fetch (feedparser.parse, client.get)
Request(r) ==
  requests' = [requests EXCEPT ![r] = IF CredentialAbsent(src[r]) THEN @
                                      ELSE @ \cup {src[r]}]

\* run: the fetch of the current source (fetch_rss / fetch_api) returns a list
Fetch(r) ==
  /\ pc[r] = "fetch"
  /\ fetched' = [fetched EXCEPT ![r] = @ \cup {src[r]}]
  /\ Request(r)
  /\ \E n \in Fetchable(src[r]) :
       IF n = 0
       THEN NextSource(r)
       ELSE /\ articles' = [articles EXCEPT ![r] = n]
            /\ idx' = [idx EXCEPT ![r] = 1]
            /\ \E a \in Candidates : article' = [article EXCEPT ![r] = a]
            /\ pc' = [pc EXCEPT ![r] = "is_duplicate"]
            /\ UNCHANGED <<src, skipped, article_error>>
  /\ UNCHANGED <<news_items, points, news_item, chunks, vectors, fetch_error>>
  /\ UNCHANGED <<lost, newsapi_key, sessions, index_vars, call, chat_vars>>

\* the well-formed entries a response may hold besides a malformed one. The
\* fetchers of the APIs build the candidates in one list comprehension over
\* the response (_fetch_newsapi: a.get("description", "") + " " + ..., which
\* raises on a null field), so one entry that raises leaves no candidate;
\* fetch_rss reads its entries with defaults only and no entry raises.
WellFormedBesides(s) == IF SOURCES[s].type = "api" THEN 0..(MaxArticles - 1) ELSE {0}

\* run: the fetch of the current source raises: the request fails, or the
\* conversion of an entry of the response does
FetchRaises(r) ==
  /\ pc[r] = "fetch"
  /\ ~CredentialAbsent(src[r])
  /\ fetched' = [fetched EXCEPT ![r] = @ \cup {src[r]}]
  /\ Request(r)
  /\ fetch_error' = [fetch_error EXCEPT ![r] = src[r]]
  /\ \E n \in WellFormedBesides(src[r]) : lost' = [lost EXCEPT ![r] = n]
  /\ pc' = [pc EXCEPT ![r] = "except_source"]
  /\ UNCHANGED <<news_items, points, src, articles, idx, article, news_item, chunks,
                 vectors, skipped, article_error>>
  /\ UNCHANGED <<newsapi_key, sessions, index_vars, call, chat_vars>>

\* run: except Exception: continue (of the loop over SOURCES)
ExceptSource(r) ==
  /\ pc[r] = "except_source"
  /\ OnSourceException(r)
  /\ lost' = [lost EXCEPT ![r] = 0]
  /\ UNCHANGED <<news_items, points, news_item, chunks, vectors, fetched, requests, fetch_error>>
  /\ UNCHANGED <<newsapi_key, sessions, index_vars, call, chat_vars>>

\* run: except Exception: continue (of the loop over articles)
ExceptArticle(r) ==
  /\ pc[r] = "except_article"
  /\ OnArticleException(r)
  /\ UNCHANGED <<news_items, points, news_item, chunks, vectors, fetched, requests, fetch_error>>
  /\ UNCHANGED <<lost, newsapi_key, sessions, index_vars, call, chat_vars>>

\* process_article: if self.is_duplicate(article["url"]): return
IsDuplicate(r) ==
  /\ pc[r] = "is_duplicate"
  /\ IF is_duplicate(article[r].url)
     THEN Return(r)
     ELSE /\ pc' = [pc EXCEPT ![r] = "store_article"]
          /\ UNCHANGED <<src, articles, idx, article, news_item, chunks, vectors,
                         skipped, article_error>>
  /\ UNCHANGED <<news_items, points, fetched, requests, fetch_error>>
  /\ UNCHANGED <<lost, newsapi_key, index_vars, call, chat_vars>>
  /\ WithSession(r, FALSE)

\* process_article: the query of is_duplicate fails (the session is closed
\* by its finally and the error leaves process_article)
IsDuplicateRaises(r) ==
  /\ pc[r] = "is_duplicate"
  /\ Raise(r)
  /\ UNCHANGED <<news_items, points, fetched, requests, fetch_error>>
  /\ UNCHANGED <<lost, newsapi_key, index_vars, call, chat_vars>>
  /\ WithSession(r, TRUE)

\* process_article: store_article fails with an error that is no
\* IntegrityError (nothing is committed)
StoreArticleRaises(r) ==
  /\ pc[r] = "store_article"
  /\ Raise(r)
  /\ UNCHANGED <<news_items, points, fetched, requests, fetch_error>>
  /\ UNCHANGED <<lost, newsapi_key, index_vars, call, chat_vars>>
  /\ WithSession(r, TRUE)

\* process_article: news_item = self.store_article(article, category)
StoreArticle(r) ==
  /\ pc[r] = "store_article"
  /\ IF UniqueViolation(article[r].url)
     THEN /\ news_item' = [news_item EXCEPT ![r] = OnIntegrityError(article[r].url)]
          /\ UNCHANGED news_items
     ELSE LET row == NewsItem(article[r], Category(r))
          IN  /\ news_items' = news_items \cup {row}
              /\ news_item' = [news_item EXCEPT ![r] = row.id]
  /\ pc' = [pc EXCEPT ![r] = "split_text"]
  /\ UNCHANGED <<points, src, articles, idx, article, chunks, vectors, fetched, requests,
                 skipped, fetch_error, article_error>>
  /\ UNCHANGED <<lost, newsapi_key, index_vars, call, chat_vars>>
  /\ WithSession(r, FALSE)

\* (a process_article without the test of the chunks)
NoChunksNever(cs) == FALSE

\* if not chunks: return
NoChunks(cs) == cs = << >>

\* process_article: if not news_item: return
\*                  chunks = self.chunker.split_text(article["content"])
\*                  if not chunks: return
SplitText(r) ==
  /\ pc[r] = "split_text"
  /\ LET cs == split_text(article[r].content)
     IN  IF news_item[r] = None \/ NoChunks(cs)
         THEN Return(r)
         ELSE /\ chunks' = [chunks EXCEPT ![r] = cs]
              /\ pc' = [pc EXCEPT ![r] = "embed"]
              /\ UNCHANGED <<src, articles, idx, article, news_item, vectors, skipped,
                             article_error>>
  /\ UNCHANGED <<news_items, points, fetched, requests, fetch_error>>
  /\ UNCHANGED <<lost, newsapi_key, sessions, index_vars, call, chat_vars>>

\* process_article: the splitter raises on the stored article's content
SplitTextRaises(r) ==
  /\ pc[r] = "split_text"
  /\ news_item[r] # None
  /\ Raise(r)
  /\ UNCHANGED <<news_items, points, fetched, requests, fetch_error>>
  /\ UNCHANGED <<lost, newsapi_key, sessions, index_vars, call, chat_vars>>

\* process_article: vectors = self.embedder.embed(chunks); the backend answers
\* with one vector per chunk, or with fewer (a short response.data)
Embed(r) ==
  /\ pc[r] = "embed"
  /\ \E n \in {Len(chunks[r]), Len(chunks[r]) - 1} :
       vectors' = [vectors EXCEPT ![r] = SubSeq(embed(chunks[r]), 1, n)]
  /\ pc' = [pc EXCEPT ![r] = "upsert_vectors"]
  /\ UNCHANGED <<news_items, points, src, articles, idx, article, news_item, chunks,
                 fetched, requests, skipped, fetch_error, article_error>>
  /\ UNCHANGED <<lost, newsapi_key, sessions, index_vars, call, chat_vars>>

\* process_article: the embedding call raises
EmbedRaises(r) ==
  /\ pc[r] = "embed"
  /\ Raise(r)
  /\ UNCHANGED <<news_items, points, fetched, requests, fetch_error>>
  /\ UNCHANGED <<lost, newsapi_key, sessions, index_vars, call, chat_vars>>

\* process_article: one payload per chunk
Payloads(r) ==
  [i \in 1..Len(chunks[r]) |->
     [source_id     |-> news_item[r],
      category      |-> Category(r),
      content_chunk |-> chunks[r][i],
      title         |-> article[r].title,
      url           |-> article[r].url]]

\* process_article: self.vector_store.upsert_vectors(vectors, payloads)
UpsertVectors(r) ==
  /\ pc[r] = "upsert_vectors"
  /\ LET res == upsert_vectors(collection, embedding_dim, points, vectors[r],
                               Payloads(r), FALSE, << >>, uuid4s(Len(vectors[r])))
     IN  /\ IF res.raised
            THEN Raise(r) /\ UNCHANGED points
            ELSE points' = res.coll /\ Return(r)
         /\ uuids' = res.uuids
         /\ dim_error' = [dim_error EXCEPT ![r] = @ \/ res.rejected]
  /\ UNCHANGED <<news_items, fetched, requests, fetch_error>>
  /\ UNCHANGED <<lost, newsapi_key, sessions, collection, pending, call, chat_vars>>

\* process_article: the request to the vector index fails
UpsertRaises(r) ==
  /\ pc[r] = "upsert_vectors"
  /\ Raise(r)
  /\ UNCHANGED <<news_items, points, fetched, requests, fetch_error>>
  /\ UNCHANGED <<lost, newsapi_key, sessions, index_vars, call, chat_vars>>

\* the state before any run has fetched: the runs of started at source first
\* (the sources before it have returned empty lists), the others not called
IngestInitWith(started, first, keys) ==
  /\ news_items = {}
  /\ pc = [r \in Runs |-> IF r \in started THEN "fetch" ELSE "idle"]
  /\ src = [r \in Runs |-> IF r \in started THEN first ELSE 0]
  /\ articles = [r \in Runs |-> 0]
  /\ idx = [r \in Runs |-> 0]
  /\ article = [r \in Runs |-> NoArticle]
  /\ news_item = [r \in Runs |-> None]
  /\ chunks = [r \in Runs |-> << >>]
  /\ vectors = [r \in Runs |-> << >>]
  /\ fetched = [r \in Runs |-> IF r \in started THEN 1..(first - 1) ELSE {}]
  /\ skipped = [r \in Runs |-> {}]
  /\ fetch_error = [r \in Runs |-> 0]
  /\ article_error = [r \in Runs |-> 0]
  /\ dim_error = [r \in Runs |-> FALSE]
  /\ lost = [r \in Runs |-> 0]
  /\ newsapi_key \in keys
  /\ requests = fetched
  /\ sessions = [r \in Runs |-> 0]

\* the same, in a process that has the credential of its API source
IngestInit(started, first) == IngestInitWith(started, first, {TRUE})

\* the callers of upsert_vectors other than the pipeline
Writers == {1, 2}

NoPending == [busy |-> FALSE, ids |-> << >>, vectors |-> << >>, payloads |-> << >>]

\* the index after init_collection in a process whose VECTOR_SIZE is size,
\* without records and with no call in progress
IndexInit(size) ==
  /\ collection = Collection(size)
  /\ points = << >>
  /\ uuids = 0
  /\ pending = [w \in Writers |-> NoPending]

NoCall == [vectors |-> 0, payloads |-> 0, given |-> FALSE, ids |-> 0, raised |-> FALSE]

NoRequest == [query |-> << >>, category |-> ""]

ChatIdle ==
  /\ chat_pc = "idle"
  /\ request = NoRequest
  /\ results = << >>
  /\ context_parts = << >>
  /\ sources = << >>
  /\ prompt = [context |-> << >>, question |-> << >>]
  /\ demand = FALSE
  /\ events = << >>
  /\ backend_out = << >>

RunStep(r) ==
  \/ Fetch(r)
  \/ FetchRaises(r)
  \/ ExceptSource(r)
  \/ IsDuplicate(r)
  \/ IsDuplicateRaises(r)
  \/ StoreArticle(r)
  \/ StoreArticleRaises(r)
  \/ SplitText(r)
  \/ SplitTextRaises(r)
  \/ Embed(r)
  \/ EmbedRaises(r)
  \/ UpsertVectors(r)
  \/ UpsertRaises(r)
  \/ ExceptArticle(r)

\* one ingestion run, from its first source
Init == IngestInit({1}, 1) /\ IndexInit(embedding_dim) /\ call = NoCall /\ ChatIdle

Next == \E r \in Runs : RunStep(r)

Spec == Init /\ [][Next]_vars

\* one ingestion run against a collection that a process with another
\* VECTOR_SIZE than the embedding model's vector length has created
InitMismatch ==
  /\ IngestInit({1}, 1)
  /\ \E size \in VectorSizes \ {embedding_dim} : IndexInit(size)
  /\ call = NoCall
  /\ ChatIdle

SpecMismatch == InitMismatch /\ [][Next]_vars

\* two interleaved ingestion runs, both at the last source
InitRuns ==
  IngestInit(Runs, NumSources) /\ IndexInit(embedding_dim) /\ call = NoCall /\ ChatIdle

SpecRuns == InitRuns /\ [][Next]_vars

\* run_ingestion is called again after the run before it has ended: the later
\* run comes to the last source (the sources before it answer with empty lists)
Rerun ==
  /\ pc[1] = "done" /\ pc[2] = "idle"
  /\ pc' = [pc EXCEPT ![2] = "fetch"]
  /\ src' = [src EXCEPT ![2] = NumSources]
  /\ fetched' = [fetched EXCEPT ![2] = 1..(NumSources - 1)]
  /\ requests' = [requests EXCEPT ![2] = 1..(NumSources - 1)]
  /\ UNCHANGED <<news_items, points, articles, idx, article, news_item, chunks,
                 vectors, skipped, fetch_error, article_error>>
  /\ UNCHANGED <<lost, newsapi_key, sessions, index_vars, call, chat_vars>>

\* the steps of a run whose only failures are those of the embedding backend
\* and of the vector index: the sources and the Article Store answer
BackendFaultStep(r) ==
  \/ Fetch(r)
  \/ IsDuplicate(r)
  \/ StoreArticle(r)
  \/ SplitText(r)
  \/ Embed(r)
  \/ EmbedRaises(r)
  \/ UpsertVectors(r)
  \/ UpsertRaises(r)
  \/ ExceptArticle(r)

\* a run at the last source, and a later run after it
InitRerun ==
  IngestInit({1}, NumSources) /\ IndexInit(embedding_dim) /\ call = NoCall /\ ChatIdle

NextRerun == (\E r \in Runs : BackendFaultStep(r)) \/ Rerun

SpecRerun == InitRerun /\ [][NextRerun]_vars

\* one ingestion run in a process with or without the credential of its API
\* source
InitCredentials ==
  /\ IngestInitWith({1}, 1, BOOLEAN)
  /\ IndexInit(embedding_dim)
  /\ call = NoCall
  /\ ChatIdle

SpecCredentials == InitCredentials /\ [][Next]_vars

\* ------------------------------------------- direct calls of the Vector Index
\* what a caller of upsert_vectors passes: vectors, payloads (with or without
\* the fields the pipeline writes) and, optionally, point ids
Vecs == {1}

CallPayloads == {[category |-> "finance", content_chunk |-> <<"a">>, url |-> "u1"],
                 [content_chunk |-> <<"b">>]}

CallIds == {1, 2}

\* VectorStore.upsert_vectors(vectors, payloads, ids=None), called directly
UpsertCall ==
  /\ \E vs \in SeqsUpTo(Vecs, MaxBatch), ps \in SeqsUpTo(CallPayloads, MaxBatch),
        given \in BOOLEAN, ids \in SeqsUpTo(CallIds, MaxBatch) :
       /\ given \/ ids = << >>
       /\ ~given => Fresh + Len(vs) <= MaxPoints
       /\ LET res == upsert_vectors(collection, collection.size, points, vs, ps, given,
                                    ids, uuid4s(Len(vs)))
          IN  /\ points' = res.coll
              /\ uuids' = res.uuids
              /\ call' = [vectors |-> Len(vs), payloads |-> Len(ps), given |-> given,
                          ids |-> Len(ids), raised |-> res.raised]
  /\ UNCHANGED <<news_items, pc, src, articles, idx, article, news_item, chunks,
                 vectors, fetched, requests, skipped, fetch_error, article_error, lost,
                 newsapi_key, sessions>>
  /\ UNCHANGED <<collection, dim_error, pending>>
  /\ UNCHANGED chat_vars

InitUpsert == IngestInit({}, 1) /\ IndexInit(vector_size) /\ call = NoCall /\ ChatIdle

NextUpsert == UpsertCall

SpecUpsert == InitUpsert /\ [][NextUpsert]_vars

\* ------------------------------------------------------------ similarity search
Abs(x) == IF x < 0 THEN -x ELSE x

\* the cosine similarity of two vectors, in tenths
Score(qv, v) == 10 - 4 * Abs(qv - v)

\* category: Optional[str] = None, score_threshold: Optional[float] = None
NoCategory == "None"
NoThreshold == -11

\* if category: (None and the empty string build no filter)
Truthy(category) == category \notin {NoCategory, ""}

\* (a search that never builds the filter)
EligibleNoFilter(coll, qv, category, thr) ==
  {i \in DOMAIN coll : thr = NoThreshold \/ Score(qv, coll[i].vector) >= thr}

\* the points the query_filter and the score_threshold leave
Eligible(coll, qv, category, thr) ==
  {i \in DOMAIN coll :
     /\ Truthy(category) => ("category" \in DOMAIN coll[i].payload
                              /\ coll[i].payload.category = category)
     /\ thr = NoThreshold \/ Score(qv, coll[i].vector) >= thr}

Hit(coll, qv, i) == [id |-> i, score |-> Score(qv, coll[i].vector), payload |-> coll[i].payload]

\* VectorStore.search: the answers client.search may give, the best lim
\* eligible points by descending score (points of equal score in any order)
search(coll, qv, lim, category, thr) ==
  LET el == Eligible(coll, qv, category, thr)
      k  == Min(lim, Cardinality(el))
      sc(i) == Score(qv, coll[i].vector)
      best == {f \in [1..k -> el] :
                 /\ \A a, b \in 1..k : a < b => (f[a] # f[b] /\ sc(f[a]) >= sc(f[b]))
                 /\ \A i \in el \ {f[a] : a \in 1..k} : \A a \in 1..k : sc(i) <= sc(f[a])}
  IN  {[a \in 1..k |-> Hit(coll, qv, f[a])] : f \in best}

\* Retriever.retrieve(query, limit, category, score_threshold=0.3)
retrieve(coll, query, lim, category) ==
  search(coll, embed(<<query>>)[1], lim, category, score_threshold)

\* ------------------------------------------------------------------ chat
Queries == {<<"a", "b">>, <<"a", "b", "c">>, <<"a", "b", "c", "d", "e">>}

\* chunk.text / delta.content of a streamed chunk ("": none)
ChunkTexts == {"", "Hello", "world"}

\* payload.get('content_chunk', '')
ContentChunk(payload) ==
  IF "content_chunk" \in DOMAIN payload THEN payload.content_chunk ELSE << >>

\* context_parts.append(f"[{i}] {payload.get('content_chunk', '')}")
ContextParts(res) == [i \in 1..Len(res) |-> <<i, ContentChunk(res[i].payload)>>]

\* (sources.insert(0, ...) in place of sources.append)
CollectSourceInFront(srcs, payload) ==
  IF "url" \in DOMAIN payload THEN <<payload.url>> \o srcs ELSE srcs

\* if "url" in payload: sources.append(payload["url"])
CollectSource(srcs, payload) ==
  IF "url" \in DOMAIN payload THEN Append(srcs, payload.url) ELSE srcs

\* the loop over results, for the citation list
RECURSIVE SourcesOf(_, _)
SourcesOf(srcs, res) ==
  IF res = << >> THEN srcs
  ELSE SourcesOf(CollectSource(srcs, Head(res).payload), Tail(res))

SourcesEvent(srcs) == [type |-> "sources", sources |-> srcs]
TokenEvent(text) == [type |-> "token", content |-> text]
DoneEvent == [type |-> "done"]

\* (a generate() without its first yield)
GenerateStartAtStream == "stream"

\* generate(): the generator starts at the yield of the sources event
GenerateStart == "sources"

\* (a generate() that asks the backend only when there are hits)
AfterSourcesSkipEmpty(res) == IF res = << >> THEN "done" ELSE "stream"

\* generate(): after the sources event comes the loop over llm.stream(prompt),
\* whatever the hits
AfterSources(res) == "stream"

\* LLMService.stream: if chunk.text: yield chunk.text
Yields(text) == text # ""

\* (a search that takes the records it has read out of the collection)
AfterSearchEmptied(coll) == << >>

\* retriever.retrieve, VectorStore.search: self.client.search(...) reads the
\* collection and writes nothing to it
AfterSearch(coll) == coll

\* chat: retrieval, context block, citation list and prompt; the response is
\* returned with generate() not started
Chat ==
  /\ chat_pc = "idle"
  /\ \E q \in Queries, c \in {NoCategory, ""} \cup Categories :
       \E res \in retrieve(points, q, limit, c) :
         /\ request' = [query |-> q, category |-> c]
         /\ results' = res
         /\ context_parts' = ContextParts(res)
         /\ sources' = SourcesOf(<< >>, res)
         /\ prompt' = [context |-> ContextParts(res), question |-> q]
  /\ chat_pc' = GenerateStart
  /\ points' = AfterSearch(points)
  /\ UNCHANGED <<demand, events, backend_out>>
  /\ UNCHANGED <<news_items, pc, src, articles, idx, article, news_item, chunks,
                 vectors, fetched, requests, skipped, fetch_error, article_error,
                 lost, newsapi_key, sessions>>
  /\ UNCHANGED <<index_vars, call>>

\* chat: embedding the query or searching raises; the request fails
ChatRaises ==
  /\ chat_pc = "idle"
  /\ \E q \in Queries, c \in {NoCategory, ""} \cup Categories :
       request' = [query |-> q, category |-> c]
  /\ chat_pc' = "failed"
  /\ UNCHANGED <<results, context_parts, sources, prompt, demand, events, backend_out>>
  /\ UNCHANGED <<ingest_vars, index_vars, call>>

\* the consumer of the StreamingResponse asks generate() for its next event
Pull ==
  /\ chat_pc \in {"sources", "stream", "done"}
  /\ ~demand
  /\ demand' = TRUE
  /\ UNCHANGED <<chat_pc, request, results, context_parts, sources, prompt, events,
                 backend_out>>
  /\ UNCHANGED <<ingest_vars, index_vars, call>>

\* generate: yield the sources event
YieldSources ==
  /\ chat_pc = "sources" /\ demand
  /\ events' = Append(events, SourcesEvent(sources))
  /\ chat_pc' = AfterSources(results)
  /\ demand' = FALSE
  /\ UNCHANGED <<request, results, context_parts, sources, prompt, backend_out>>
  /\ UNCHANGED <<ingest_vars, index_vars, call>>

\* (an llm.stream that reads the response ahead of its consumer)
NextChunkAhead(resumed) == TRUE

\* LLMService.stream is a generator, and so is generate(): the loop over the
\* backend's response asks for the next chunk when generate() has been
\* resumed for its next event, and is suspended at its yield otherwise
NextChunk(resumed) == resumed

\* generate: for chunk in llm.stream(prompt): the backend produces a chunk;
\* llm.stream passes its text on if it has one, and generate yields a token
StreamChunk ==
  /\ chat_pc = "stream" /\ NextChunk(demand)
  /\ Len(backend_out) < MaxFragments
  /\ \E text \in ChunkTexts :
       /\ backend_out' = Append(backend_out, text)
       /\ IF Yields(text)
          THEN events' = Append(events, TokenEvent(text)) /\ demand' = FALSE
          ELSE UNCHANGED <<events, demand>>
  /\ UNCHANGED <<chat_pc, request, results, context_parts, sources, prompt>>
  /\ UNCHANGED <<ingest_vars, index_vars, call>>

\* generate: the backend's stream ends; yield "data: [DONE]"
StreamEnd ==
  /\ chat_pc = "stream" /\ demand
  /\ events' = Append(events, DoneEvent)
  /\ chat_pc' = "done"
  /\ demand' = FALSE
  /\ UNCHANGED <<request, results, context_parts, sources, prompt, backend_out>>
  /\ UNCHANGED <<ingest_vars, index_vars, call>>

\* generate: llm.stream raises (the request to the backend, or the stream
\* while it is read); nothing catches it and the response ends there
StreamRaises ==
  /\ chat_pc = "stream" /\ demand
  /\ chat_pc' = "error"
  /\ demand' = FALSE
  /\ UNCHANGED <<request, results, context_parts, sources, prompt, events, backend_out>>
  /\ UNCHANGED <<ingest_vars, index_vars, call>>

\* generate: the generator returns after its last yield
Finish ==
  /\ chat_pc = "done" /\ demand
  /\ chat_pc' = "closed"
  /\ demand' = FALSE
  /\ UNCHANGED <<request, results, context_parts, sources, prompt, events, backend_out>>
  /\ UNCHANGED <<ingest_vars, index_vars, call>>

\* the consumer stops reading; the generator is closed where it stands
Abandon ==
  /\ chat_pc \in {"sources", "stream", "done"}
  /\ ~demand
  /\ chat_pc' = "abandoned"
  /\ UNCHANGED <<request, results, context_parts, sources, prompt, demand, events,
                 backend_out>>
  /\ UNCHANGED <<ingest_vars, index_vars, call>>

\* the records a collection may hold when a request arrives: the chunks of
\* two ingested articles, and a record upserted without a url
ChatPoints ==
  LET pl(id, cat, chunk, url) ==
        [source_id |-> id, category |-> cat, content_chunk |-> chunk, title |-> "t",
         url |-> url]
  IN  <<[vector |-> 3, payload |-> pl(1, "finance", <<"a", "b", "c">>, "u1")],
        [vector |-> 2, payload |-> pl(1, "finance", <<"c", "d">>, "u1")],
        [vector |-> 3, payload |-> pl(2, "geopolitics", <<"a", "b", "c">>, "u2")],
        [vector |-> 2, payload |-> pl(2, "geopolitics", <<"c", "d">>, "u2")],
        [vector |-> 3, payload |-> [category |-> "finance", content_chunk |-> <<"b">>]]>>

InitChat ==
  /\ IngestInit({}, 1)
  /\ \E ids \in SUBSET DOMAIN ChatPoints : points = [i \in ids |-> ChatPoints[i]]
  /\ collection = Collection(embedding_dim)
  /\ uuids = Len(ChatPoints)
  /\ pending = [w \in Writers |-> NoPending]
  /\ call = NoCall
  /\ ChatIdle

NextChat ==
  \/ Chat
  \/ ChatRaises
  \/ Pull
  \/ YieldSources
  \/ StreamChunk
  \/ StreamEnd
  \/ StreamRaises
  \/ Finish
  \/ Abandon

SpecChat == InitChat /\ [][NextChat]_vars

\* a chat request while an ingestion run is at its last source: the host runs
\* ingestion as a task of its own, with no coordination with the requests
InitChatIngest ==
  /\ IngestInit({1}, NumSources)
  /\ IndexInit(embedding_dim)
  /\ call = NoCall
  /\ ChatIdle

\* the backend answers such a request with at most MaxStreamed chunks
NextChatIngest ==
  \/ RunStep(1)
  \/ Chat
  \/ ChatRaises
  \/ Pull
  \/ YieldSources
  \/ (Len(backend_out) < MaxStreamed /\ StreamChunk)
  \/ StreamEnd
  \/ StreamRaises
  \/ Finish
  \/ Abandon

SpecChatIngest == InitChatIngest /\ [][NextChatIngest]_vars

\* ------------------------------------------------------ concurrent writers
\* upsert_vectors(vectors, payloads) of writer w, up to the call of the index:
\* the lengths agree, ids is None, the identifiers are generated
GenerateIds(w) ==
  /\ ~pending[w].busy
  /\ \E ps \in SeqsUpTo(CallPayloads, MaxBatch) :
       LET vs  == [k \in 1..Len(ps) |-> 1]
           ids == uuid4s(Len(vs))
       IN  /\ ~LengthMismatch(vs, ps) /\ ~IdsMismatch(ids, vs)
           /\ Fresh + Len(vs) <= MaxPoints
           /\ pending' = [pending EXCEPT ![w] =
                            [busy |-> TRUE, ids |-> ids, vectors |-> vs, payloads |-> ps]]
           /\ uuids' = IF ids = << >> THEN uuids ELSE Max(uuids, ids[Len(ids)])
  /\ UNCHANGED <<news_items, points, pc, src, articles, idx, article, news_item,
                 chunks, vectors, fetched, requests, skipped, fetch_error, article_error, lost,
                 newsapi_key, sessions>>
  /\ UNCHANGED <<collection, dim_error, call, chat_vars>>

\* upsert_vectors of writer w: self.client.upsert(points), and the return
WriterUpsert(w) ==
  /\ pending[w].busy
  /\ points' = IF ClientRejects(collection, collection.size, Len(pending[w].vectors))
                THEN points
                ELSE ClientUpsert(points, pending[w].ids, pending[w].vectors,
                                  pending[w].payloads)
  /\ pending' = [pending EXCEPT ![w] = NoPending]
  /\ UNCHANGED <<news_items, pc, src, articles, idx, article, news_item, chunks,
                 vectors, fetched, requests, skipped, fetch_error, article_error, lost,
                 newsapi_key, sessions>>
  /\ UNCHANGED <<collection, uuids, dim_error, call, chat_vars>>

WriterStep(w) == GenerateIds(w) \/ WriterUpsert(w)

InitWriters == InitUpsert

NextWriters == \E w \in Writers : WriterStep(w)

SpecWriters == InitWriters /\ [][NextWriters]_vars

\* ------------------------------------------------- the collection's life
\* (an init_collection that creates the collection anew on every call)
init_collectionRecreate(meta, coll, size) ==
  [created |-> ~meta.exists, collection |-> Collection(size), points |-> << >>]

\* VectorStore.init_collection() in a process whose settings.vector_size is
\* size: what it returns, and the collection and its records after it
init_collection(meta, coll, size) ==
  IF meta.exists
  THEN [created |-> FALSE, collection |-> meta, points |-> coll]
  ELSE [created |-> TRUE, collection |-> Collection(size), points |-> << >>]

InitCollection ==
  /\ \E size \in VectorSizes :
       LET res == init_collection(collection, points, size)
       IN  /\ collection' = res.collection
           /\ points' = res.points
           /\ call' = [created |-> res.created, size |-> size]
  /\ UNCHANGED <<news_items, pc, src, articles, idx, article, news_item, chunks,
                 vectors, fetched, requests, skipped, fetch_error, article_error, lost,
                 newsapi_key, sessions>>
  /\ UNCHANGED <<uuids, dim_error, pending>>
  /\ UNCHANGED chat_vars

\* VectorStore.delete_collection()
DeleteCollection ==
  /\ collection.exists
  /\ collection' = NoCollection
  /\ points' = << >>
  /\ call' = [deleted |-> TRUE]
  /\ UNCHANGED <<news_items, pc, src, articles, idx, article, news_item, chunks,
                 vectors, fetched, requests, skipped, fetch_error, article_error, lost,
                 newsapi_key, sessions>>
  /\ UNCHANGED <<uuids, dim_error, pending>>
  /\ UNCHANGED chat_vars

\* a fresh index: no collection yet
InitNoCollection ==
  /\ IngestInit({}, 1)
  /\ collection = NoCollection
  /\ points = << >>
  /\ uuids = 0
  /\ pending = [w \in Writers |-> NoPending]
  /\ call = NoCall
  /\ ChatIdle

NextCollection ==
  \/ InitCollection
  \/ \E w \in Writers : WriterStep(w)
  \/ DeleteCollection

SpecCollection == InitNoCollection /\ [][NextCollection]_vars

\* ------------------------------------------------- the chunker by itself
\* the characters of a text: letters, the blank and the line break
Chars == {"a", "b", " ", "\n"}

Texts == SeqsUpTo(Chars, MaxText)

\* RecursiveCharacterTextSplitter(chunk_size=size, chunk_overlap=overlap)
\* .split_text(text)
ChunkerCall ==
  /\ "text" \in DOMAIN call /\ ~call.done
  /\ chunks' = [chunks EXCEPT ![1] =
                  SplitRecursive(call.text, Separators, call.size, call.overlap)]
  /\ call' = [call EXCEPT !.done = TRUE]
  /\ UNCHANGED <<news_items, points, pc, src, articles, idx, article, news_item,
                 vectors, fetched, requests, skipped, fetch_error, article_error, lost,
                 newsapi_key, sessions>>
  /\ UNCHANGED <<index_vars, chat_vars>>

\* a chunker configured with 0 < overlap < size, and a text
InitChunker ==
  /\ IngestInit({}, 1)
  /\ IndexInit(vector_size)
  /\ \E text \in Texts, size \in 2..MaxChunkSize :
       \E overlap \in 1..(size - 1) :
         call = [text |-> text, size |-> size, overlap |-> overlap, done |-> FALSE]
  /\ ChatIdle

NextChunker == ChunkerCall

SpecChunker == InitChunker /\ [][NextChunker]_vars

\* -------------------------------------------- direct calls of search
\* query vectors, and the limits and thresholds a caller passes
QueryVectors == {2, 3}

Thresholds == {NoThreshold, score_threshold, 7}

\* VectorStore.search(query_vector, limit, category, score_threshold)
SearchCall ==
  /\ \E qv \in QueryVectors, lim \in 1..MaxLimit,
        c \in {NoCategory, ""} \cup Categories, thr \in Thresholds :
       /\ results' \in search(points, qv, lim, c, thr)
       /\ call' = [query_vector |-> qv, limit |-> lim, category |-> c,
                   score_threshold |-> thr]
  /\ UNCHANGED <<ingest_vars, index_vars>>
  /\ UNCHANGED <<chat_pc, request, context_parts, sources, prompt, demand, events,
                 backend_out>>

InitSearch == InitChat

NextSearch == SearchCall

SpecSearch == InitSearch /\ [][NextSearch]_vars

\* ------------------------------------------------- date resolution by itself
\* the raw date values a response may carry for an entry, with their Python
\* types: null or no key at all, the empty string, an RFC-2822 date, an
\* ISO-8601 date, a string that is no date, the numbers 0, epoch seconds and
\* epoch milliseconds (a year beyond datetime's range)
NoDate == [type |-> "NoneType", value |-> "None"]

RawDates ==
  {NoDate,
   [type |-> "str", value |-> ""],
   [type |-> "str", value |-> "Mon, 01 Jan 2024 00:00:00 GMT"],
   [type |-> "str", value |-> "2024-01-01T00:00:00Z"],
   [type |-> "str", value |-> "soon"],
   [type |-> "int", value |-> "0"],
   [type |-> "int", value |-> "1704067200"],
   [type |-> "int", value |-> "1704067200000"]}

\* the date formats of the fetchers: fetch_rss; _fetch_newsapi, _fetch_guardian
\* and _fetch_nyt; _fetch_finnhub
DateFormats == {"rfc2822", "iso8601", "epoch"}

\* str(x)
Str(x) == [type |-> "str", value |-> x.value]

\* not x
Falsy(x) == x.type = "NoneType" \/ x.value = "" \/ (x.type = "int" /\ x.value = "0")

\* the outcome of a date resolution: a timestamp, or an exception
Timestamp(t) == [raised |-> FALSE, published_at |-> t]

Raises == [raised |-> TRUE, published_at |-> ""]

\* datetime.utcnow()
utcnow == Timestamp("now")

\* email.utils.parsedate_to_datetime(x)
parsedate_to_datetime(x) ==
  IF x.type = "str" /\ x.value = "Mon, 01 Jan 2024 00:00:00 GMT"
  THEN Timestamp(x.value) ELSE Raises

\* datetime.fromisoformat(x.replace("Z", "+00:00")): a value that is no
\* string has no replace
fromisoformat(x) ==
  IF x.type = "str" /\ x.value = "2024-01-01T00:00:00Z"
  THEN Timestamp(x.value) ELSE Raises

\* datetime.fromtimestamp(x): TypeError unless x is a number, ValueError or
\* OverflowError for a number beyond the years datetime has
fromtimestamp(x) ==
  IF x.type = "int" /\ x.value \in {"0", "1704067200"}
  THEN Timestamp(x.value) ELSE Raises

\* try: return ... except Exception: return datetime.utcnow()
ExceptUtcnow(res) == IF res.raised THEN utcnow ELSE res

\* IngestionPipeline._parse_date
_parse_date(date_str) ==
  IF Falsy(date_str) THEN utcnow ELSE ExceptUtcnow(parsedate_to_datetime(date_str))

\* IngestionPipeline._parse_iso_date
_parse_iso_date(date_str) ==
  IF Falsy(date_str) THEN utcnow ELSE ExceptUtcnow(fromisoformat(date_str))

\* the published_at of one entry, as the fetcher of the format computes it:
\*   fetch_rss:      self._parse_date(str(entry.get("published", "")))
\*   _fetch_newsapi: self._parse_iso_date(a.get("publishedAt"))
\*   _fetch_finnhub: datetime.fromtimestamp(a.get("datetime", 0))
\*                   if a.get("datetime") else datetime.utcnow()
PublishedAt(format, raw) ==
  CASE format = "rfc2822" ->
         _parse_date(Str(IF raw = NoDate THEN [type |-> "str", value |-> ""] ELSE raw))
    [] format = "iso8601" -> _parse_iso_date(raw)
    [] format = "epoch" -> IF Falsy(raw) THEN utcnow ELSE fromtimestamp(raw)

\* the list comprehension of a fetcher over the entries of a response: one
\* candidate per entry, or the exception of the first entry that raises
FetchDates ==
  /\ "dates" \in DOMAIN call /\ ~call.done
  /\ LET res == [i \in 1..Len(call.dates) |-> PublishedAt(call.format, call.dates[i])]
     IN  call' = [call EXCEPT
                    !.done = TRUE,
                    !.raised = \E i \in 1..Len(res) : res[i].raised,
                    !.published_at = IF \E i \in 1..Len(res) : res[i].raised
                                     THEN << >>
                                     ELSE [i \in 1..Len(res) |-> res[i].published_at]]
  /\ UNCHANGED <<ingest_vars, index_vars, chat_vars>>

\* a response of a source of one of the formats, before its fetcher converts it
InitDates ==
  /\ IngestInit({}, 1)
  /\ IndexInit(vector_size)
  /\ \E format \in DateFormats, dates \in SeqsUpTo(RawDates, MaxArticles) :
       call = [format |-> format, dates |-> dates, done |-> FALSE, raised |-> FALSE,
               published_at |-> << >>]
  /\ ChatIdle

NextDates == FetchDates

SpecDates == InitDates /\ [][NextDates]_vars

\* run is a sequential loop: a run that can take a step eventually takes it
FairSpec == Init /\ [][Next]_vars /\ \A r \in Runs : WF_vars(RunStep(r))

\* ------------------------------------------------------------------ claims
InProcess == {"split_text", "embed", "upsert_vectors"}

Stored(url) == CHOOSE n \in news_items : n.url = url

PointsOf(url) ==
  {i \in DOMAIN points : "url" \in DOMAIN points[i].payload /\ points[i].payload.url = url}

UrlUnique == \A a, b \in news_items : a.url = b.url => a = b

StoreRejectsStoredUrl ==
  \A r \in Runs :
    (pc[r] = "store_article" /\ pc'[r] # "store_article" /\ is_duplicate(article[r].url))
      => (news_item'[r] = None /\ news_items' = news_items)

\* C1: the Article Store never holds two Articles with one URL, and a
\* store_article call on a URL that is already stored returns None and leaves
\* the stored Articles as they were.
C1_OneArticlePerUrl == []UrlUnique /\ [][StoreRejectsStoredUrl]_vars

\* a run has had its insert rejected for a URL that is stored
C1_Witness ==
  \E r \in Runs :
    /\ pc[r] = "split_text"
    /\ news_item[r] = None
    /\ Cardinality({n \in news_items : n.url = article[r].url}) = 1

\* C2: of the runs that are past store_article for one URL at most one got an
\* Article back and a run that got none finds the URL stored; only a run that
\* got its Article back embeds and upserts; and the Vector Index holds, for
\* every URL, either nothing or exactly the chunks of the one stored Article.
C2_RaceLoserSkips ==
  /\ \A r1, r2 \in Runs :
       (r1 # r2 /\ pc[r1] \in InProcess /\ pc[r2] \in InProcess
          /\ article[r1].url = article[r2].url)
         => (news_item[r1] = None \/ news_item[r2] = None)
  /\ \A r \in Runs :
       /\ (pc[r] \in InProcess /\ news_item[r] = None) => is_duplicate(article[r].url)
       /\ pc[r] \in {"embed", "upsert_vectors"} =>
            /\ news_item[r] # None
            /\ is_duplicate(article[r].url)
            /\ Stored(article[r].url).id = news_item[r]
            /\ PointsOf(article[r].url) = {}
  /\ \A u \in URLs :
       PointsOf(u) # {} =>
         /\ is_duplicate(u)
         /\ Cardinality(PointsOf(u)) = Len(split_text(Stored(u).content))
         /\ \A i \in PointsOf(u) : points[i].payload.source_id = Stored(u).id

\* both runs passed the pre-check for one URL; one insert succeeded, the
\* other was rejected
C2_Witness ==
  \E r1, r2 \in Runs :
    /\ pc[r1] = "split_text" /\ pc[r2] = "split_text"
    /\ article[r1].url = article[r2].url
    /\ news_item[r1] # None /\ news_item[r2] = None

RunSafe ==
  \A r \in Runs :
    /\ pc[r] # "raised"
    /\ skipped[r] = {}
    /\ pc[r] = "done" => fetched[r] = 1..NumSources

\* C3: whatever fetches raise, a run never raises, visits every source,
\* leaves no fetched article without a process_article call, and ends.
C3_SourceFaultIsolation == []RunSafe /\ \A r \in Runs : (pc[r] = "fetch") ~> (pc[r] = "done")

\* the second source's fetch raised, an article of the first source is
\* stored and an article of the third has just been stored
C3_Witness ==
  /\ pc[1] = "split_text" /\ src[1] = 3 /\ fetch_error[1] = 2
  /\ news_item[1] # None
  /\ Cardinality(news_items) = 2

HandlerContinues ==
  \A r \in Runs :
    (pc[r] = "except_article" /\ pc'[r] # "except_article") =>
      IF idx[r] < articles[r]
      THEN pc'[r] = "is_duplicate" /\ idx'[r] = idx[r] + 1 /\ src'[r] = src[r]
      ELSE pc'[r] \in {"fetch", "done"} /\ src'[r] = src[r] + 1

\* C4: an exception of process_article is followed by the next article of
\* the same source, or after the last one by the next source; it never ends
\* the run and never leaves a fetched article behind.
C4_ArticleFaultIsolation ==
  /\ [](\A r \in Runs : pc[r] # "raised" /\ skipped[r] = {})
  /\ [][HandlerContinues]_vars

\* the first article of a source raised in embedding or upserting and the
\* second is in process_article
C4_Witness ==
  /\ article_error[1] = 1 /\ idx[1] = 2
  /\ pc[1] \in {"is_duplicate", "store_article"} \cup InProcess

UpsertInLockstep ==
  \A r \in Runs :
    IF pc[r] = "upsert_vectors" /\ pc'[r] \notin {"upsert_vectors", "except_article"}
    THEN LET n   == Len(chunks[r])
             new == DOMAIN points' \ DOMAIN points
             first == MaxPointId
         IN  /\ n >= 1
             /\ Len(vectors[r]) = n
             /\ new = (first + 1)..(first + n)
             /\ \A i \in DOMAIN points : points'[i] = points[i]
             /\ \A k \in 1..n :
                  /\ points'[first + k].vector = EmbedText(chunks[r][k])
                  /\ points'[first + k].payload.content_chunk = chunks[r][k]
                  /\ points'[first + k].payload.source_id = news_item[r]
             /\ \E row \in news_items :
                  row.id = news_item[r] /\ row.url = article[r].url
    ELSE (pc'[r] # pc[r]) => points' = points

\* C5: the step that completes process_article for an article of N >= 1
\* chunks writes exactly N records, the k-th with the k-th chunk's vector
\* and text, all with the id the Article Store gave the article; no other
\* step of a run writes to the Vector Index.
C5_VectorPayloadLockstep == [][UpsertInLockstep]_vars

\* an article of two chunks has been upserted
C5_Witness ==
  \E n \in news_items :
    /\ Len(split_text(n.content)) = 2
    /\ Cardinality(PointsOf(n.url)) = 2
    /\ pc[1] = "done"

CallMismatch(c) == c.vectors # c.payloads \/ (c.given /\ c.ids # c.vectors)

CallRejected == CallMismatch(call') => (call'.raised /\ points' = points)

\* C6: an upsert_vectors call whose vectors and payloads differ in length, or
\* whose caller-supplied ids differ in length from the vectors, raises and
\* leaves the collection as it was.
C6_MismatchRejectedBeforeWrite == [][CallRejected]_vars

\* a call with ids of the wrong length was rejected on a collection that
\* holds records
C6_Witness ==
  /\ call.raised /\ call.given
  /\ call.vectors = call.payloads /\ call.ids # call.vectors
  /\ DOMAIN points # {}

IsToken(e) == e.type = "token"

HasText(text) == text # ""

TokenTexts == LET toks == SelectSeq(events, IsToken) IN [i \in 1..Len(toks) |-> toks[i].content]

\* C7: the first event of the stream is the sources event and no later one
\* is; the token events carry, in order and once each, the texts the
\* backend has produced (a chunk without text carries no fragment); the
\* end marker follows every token.
C7_StreamShape ==
  /\ events # << >> => events[1].type = "sources"
  /\ \A i \in 2..Len(events) : events[i].type # "sources"
  /\ \A i \in 1..Len(events) : events[i].type = "done" => i = Len(events)
  /\ TokenTexts = SelectSeq(backend_out, HasText)
  /\ chat_pc \in {"stream", "done", "closed", "error"} => events # << >>

\* two fragments and a chunk without text were streamed, and the stream ended
C7_Witness ==
  /\ chat_pc = "closed"
  /\ Len(backend_out) = 3
  /\ TokenTexts = <<"Hello", "world">>

\* C8: a stream that ends without the consumer having abandoned it ends with
\* the [DONE] marker, emitted once, whether the backend ended its generation
\* or raised.
C8_EndsWithDone ==
  chat_pc \in {"closed", "error"} =>
    /\ events # << >>
    /\ events[Len(events)] = DoneEvent
    /\ Cardinality({i \in 1..Len(events) : events[i] = DoneEvent}) = 1

HasUrl(payload) == "url" \in DOMAIN payload

\* C9: the citation list is a subsequence of the hits' payload URLs, in the
\* hits' order, and each cited hit's chunk text stands at the hit's number in
\* the context block of the prompt; the sources event carries that list.
C9_CitationFidelity ==
  chat_pc \notin {"idle", "failed"} =>
    /\ \A a, b \in 1..Len(results) : a < b => results[a].score >= results[b].score
    /\ Len(context_parts) = Len(results)
    /\ prompt.context = context_parts
    /\ \E f \in [1..Len(sources) -> 1..Len(results)] :
         /\ \A a, b \in 1..Len(sources) : a < b => f[a] < f[b]
         /\ \A j \in 1..Len(sources) :
              /\ HasUrl(results[f[j]].payload)
              /\ results[f[j]].payload.url = sources[j]
              /\ context_parts[f[j]] = <<f[j], results[f[j]].payload.content_chunk>>
    /\ \A i \in 1..Len(events) :
         events[i].type = "sources" => events[i].sources = sources

\* hits of two articles and a hit without url were retrieved, and the
\* sources event was emitted
C9_Witness ==
  /\ Len(events) >= 1
  /\ \E a, b, c \in 1..Len(results) :
       /\ HasUrl(results[a].payload) /\ HasUrl(results[b].payload)
       /\ results[a].payload.url # results[b].payload.url
       /\ ~HasUrl(results[c].payload)
  /\ Len(sources) < Len(results)

\* C10: no URL occurs twice in the list of a sources event.
C10_CitationsDeduplicated ==
  \A i \in 1..Len(events) :
    events[i].type = "sources" =>
      \A a, b \in 1..Len(events[i].sources) :
        events[i].sources[a] = events[i].sources[b] => a = b

SearchDone == "limit" \in DOMAIN call

Scores == [i \in 1..Len(results) |-> results[i].score]

Descending(s) == \A a, b \in 1..Len(s) : a < b => s[a] >= s[b]

HitsMatch(category) ==
  \A i \in 1..Len(results) :
    "category" \in DOMAIN results[i].payload /\ results[i].payload.category = category

\* the records of the collection that reach the threshold of the call
AboveThreshold ==
  {i \in DOMAIN points :
     call.score_threshold = NoThreshold
       \/ Score(call.query_vector, points[i].vector) >= call.score_threshold}

\* C11 (as stated): search returns at most limit hits, by descending score,
\* none below a supplied score_threshold, and for every category that is not
\* None every hit's payload category equals it.
C11_SearchContract ==
  SearchDone =>
    /\ Len(results) <= call.limit
    /\ Descending(Scores)
    /\ call.score_threshold # NoThreshold =>
         \A i \in 1..Len(results) : results[i].score >= call.score_threshold
    /\ call.category # NoCategory => HitsMatch(call.category)

\* C11 (amended): the same for every category that is neither None nor the
\* empty string; with None or the empty string the records of all categories
\* are eligible, so the hits are as many as the limit and the threshold allow,
\* and no record left out scores above a returned one.
C11_SearchContractNonEmpty ==
  SearchDone =>
    /\ Len(results) <= call.limit
    /\ Descending(Scores)
    /\ \A i \in 1..Len(results) :
         /\ results[i].id \in DOMAIN points
         /\ results[i].payload = points[results[i].id].payload
         /\ results[i].score = Score(call.query_vector, points[results[i].id].vector)
    /\ \A a, b \in 1..Len(results) : a # b => results[a].id # results[b].id
    /\ call.score_threshold # NoThreshold =>
         \A i \in 1..Len(results) : results[i].score >= call.score_threshold
    /\ Truthy(call.category) => HitsMatch(call.category)
    /\ ~Truthy(call.category) =>
         /\ Len(results) = Min(call.limit, Cardinality(AboveThreshold))
         /\ \A i \in AboveThreshold \ {results[a].id : a \in 1..Len(results)} :
              \A a \in 1..Len(results) :
                Score(call.query_vector, points[i].vector) <= results[a].score

\* a search for finance with a threshold returned the limit's two hits while
\* the collection holds a geopolitics record of the same score and a finance
\* record below the threshold
C11_Witness ==
  /\ SearchDone
  /\ call.category = "finance" /\ call.score_threshold = 7 /\ call.limit = 2
  /\ Len(results) = 2
  /\ \E i \in DOMAIN points :
       points[i].payload.category = "geopolitics"
         /\ Score(call.query_vector, points[i].vector) = results[1].score
  /\ \E i \in DOMAIN points :
       points[i].payload.category = "finance"
         /\ Score(call.query_vector, points[i].vector) < 7

\* a step of init_collection: the step that leaves its result in call (the
\* steps of the writers change pending, delete_collection changes call)
InitCollectionReturns ==
  ("created" \in DOMAIN call' /\ pending' = pending) =>
    /\ call'.created = ~collection.exists
    /\ collection'.exists
    /\ collection.exists => (collection' = collection /\ points' = points)
    /\ ~collection.exists => (collection' = Collection(call'.size) /\ points' = << >>)

\* C12: init_collection returns True exactly when there was no collection,
\* which it then creates with the caller's size; on a collection that exists
\* it returns False and leaves the collection and its records as they were.
C12_InitCollectionIdempotent == [][InitCollectionReturns]_vars

\* a call on a collection that holds records has returned False
C12_Witness ==
  /\ "created" \in DOMAIN call /\ ~call.created
  /\ call.size = collection.size
  /\ DOMAIN points # {}

\* C13: after an init_collection call the collection has the size the call
\* asked for.
C13_DimensionEnforced ==
  "created" \in DOMAIN call => (collection.exists /\ collection.size = call.size)

Busy == {w \in Writers : pending[w].busy}

IdsOf(w) == {pending[w].ids[k] : k \in 1..Len(pending[w].ids)}

\* the identifiers generated for the calls in progress differ from one
\* another and from those of every record
GeneratedIdsFresh ==
  /\ \A w \in Busy :
       /\ Cardinality(IdsOf(w)) = Len(pending[w].vectors)
       /\ IdsOf(w) \cap DOMAIN points = {}
  /\ \A w1, w2 \in Busy : w1 # w2 => IdsOf(w1) \cap IdsOf(w2) = {}

\* a write adds one record per vector of the batch and changes no other
WriteAddsBatch ==
  \A w \in Writers :
    (pending[w].busy /\ ~pending'[w].busy) =>
      /\ DOMAIN points' \ DOMAIN points = IdsOf(w)
      /\ Cardinality(DOMAIN points') = Cardinality(DOMAIN points) + Len(pending[w].vectors)
      /\ \A i \in DOMAIN points : points'[i] = points[i]

\* C17: the identifiers generated for upsert_vectors calls without ids differ
\* from one another and from every identifier in the collection, in every
\* interleaving of the writers, so each write adds as many records as its
\* batch has vectors and overwrites none.
C17_GeneratedIdsNeverCollide == []GeneratedIdsFresh /\ [][WriteAddsBatch]_vars

\* both writers generated their identifiers before either wrote, and both
\* batches are in the collection
C17_Witness ==
  /\ Busy = {}
  /\ Cardinality(DOMAIN points) = 3
  /\ \E i, j \in DOMAIN points : i < j /\ points[i].payload # points[j].payload

\* C14: a run whose upsert was rejected because the vectors do not have the
\* collection's size stops there: it goes on to no further article or source
\* and does not end as a completed run.
C14_DimensionMismatchFatal ==
  \A r \in Runs : dim_error[r] => pc[r] \in {"except_article", "raised"}

ZeroHits == results = << >> /\ chat_pc \notin {"idle", "failed"}

\* with zero hits the context block and the citation list are empty, the
\* prompt carries the query, the first event is the empty sources event, and
\* a stream whose generation ended is that event, the tokens and the marker
ZeroHitsStream ==
  ZeroHits =>
    /\ context_parts = << >> /\ sources = << >>
    /\ prompt = [context |-> << >>, question |-> request.query]
    /\ events # << >> => events[1] = SourcesEvent(<< >>)
    /\ chat_pc \in {"stream", "done", "closed"} => events # << >>
    /\ chat_pc \in {"done", "closed"} =>
         events = <<SourcesEvent(<< >>)>>
                    \o [i \in 1..Len(TokenTexts) |-> TokenEvent(TokenTexts[i])]
                    \o <<DoneEvent>>

\* with zero hits the sources event is followed by the call of the backend
ZeroHitsReachBackend ==
  (ZeroHits /\ chat_pc = "sources" /\ chat_pc' # "sources") =>
    chat_pc' \in {"stream", "abandoned"}

\* C15: a request whose retrieval returned no hit has an empty context block
\* and an empty citation list, hands the prompt with the query to the
\* backend, and streams the empty sources event, the backend's tokens and
\* the end marker.
C15_ZeroHitsStillStreams == []ZeroHitsStream /\ [][ZeroHitsReachBackend]_vars

\* a request without hits on a collection that holds records streamed two
\* tokens and ended
C15_Witness ==
  /\ results = << >> /\ chat_pc = "closed"
  /\ DOMAIN points # {}
  /\ Len(TokenTexts) = 2
  /\ events[Len(events)] = DoneEvent

Chunked == "text" \in DOMAIN call /\ call.done

\* the text the chunks give when each but the first loses its first n
\* characters
RECURSIVE Rejoin(_, _)
Rejoin(cs, n) ==
  IF cs = << >> THEN << >>
  ELSE Head(cs) \o Join([k \in 1..(Len(cs) - 1) |-> SubSeq(cs[k + 1], n + 1, Len(cs[k + 1]))])

\* consecutive chunks share n characters: the last n of one are the first n
\* of the next
ShareOverlap(cs, n) ==
  \A k \in 1..(Len(cs) - 1) :
    /\ Len(cs[k]) >= n /\ Len(cs[k + 1]) >= n
    /\ SubSeq(cs[k], Len(cs[k]) - n + 1, Len(cs[k])) = SubSeq(cs[k + 1], 1, n)

IsSubText(c, text) == \E i \in 1..(Len(text) - Len(c) + 1) : SubSeq(text, i, i + Len(c) - 1) = c

NoWhitespace(text) == \A i \in 1..Len(text) : text[i] \notin Whitespace

UrlStored(url) == \E n \in news_items : n.url = url

\* run r leaves the position it is at (its process_article call moves on)
Moves(r) == pc'[r] # pc[r] \/ idx'[r] # idx[r]

\* process_article has returned to run's loop, which is at the next article,
\* at the next source or at its end, with no exception on the way
Returned(r) ==
  /\ pc'[r] \in {"is_duplicate", "fetch", "done"}
  /\ article_error'[r] \in {article_error[r], 0}
  /\ news_item'[r] = None /\ chunks'[r] = << >> /\ vectors'[r] = << >>

DuplicateSkipped ==
  \A r \in Runs :
    (pc[r] = "is_duplicate" /\ UrlStored(article[r].url) /\ Moves(r)
       /\ pc'[r] # "except_article") =>
      /\ Returned(r)
      /\ news_items' = news_items /\ points' = points /\ uuids' = uuids

\* C18: process_article on a candidate whose URL is stored (the query of the
\* store answering) returns to the loop at once: it inserts no Article, does
\* not chunk, embed or upsert, and leaves both stores as they were.
C18_DuplicateNoEffect == [][DuplicateSkipped]_vars

\* the first source stored both URLs, and the first article of the second
\* source was passed over without an error
C18_Witness ==
  /\ src[1] = 2 /\ idx[1] = 2 /\ pc[1] = "is_duplicate"
  /\ article_error[1] = 0 /\ fetch_error[1] = 0
  /\ Cardinality(news_items) = 2
  /\ \A n \in news_items : n.category = SOURCES[1].category

\* C19 (as stated): nothing is embedded or upserted for a candidate whose
\* content yields zero chunks, and once process_article is through with it
\* nothing of it is stored.
C19_ZeroChunksNothingStored ==
  /\ \A r \in Runs : pc[r] \in {"embed", "upsert_vectors"} => chunks[r] # << >>
  /\ \A n \in news_items :
       split_text(n.content) = << >> =>
         /\ PointsOf(n.url) = {}
         /\ \E r \in Runs : pc[r] = "split_text" /\ news_item[r] = n.id

ZeroChunksSkipped ==
  \A r \in Runs :
    (pc[r] = "split_text" /\ news_item[r] # None /\ split_text(article[r].content) = << >>
       /\ Moves(r) /\ pc'[r] # "except_article") =>
      /\ Returned(r)
      /\ news_items' = news_items /\ points' = points /\ uuids' = uuids

\* C19 (amended): for a candidate whose content yields zero chunks
\* process_article returns after the chunking without an embed or upsert
\* call and without an error, and the Vector Index never holds a record of
\* it; its Article, inserted before the chunking, stays in the Article Store.
C19_ZeroChunksNoVectors ==
  /\ [](\A r \in Runs :
          pc[r] \in {"embed", "upsert_vectors"} =>
            (chunks[r] # << >> /\ chunks[r] = split_text(article[r].content)))
  /\ [](\A n \in news_items : split_text(n.content) = << >> => PointsOf(n.url) = {})
  /\ [][ZeroChunksSkipped]_vars

\* the run is through: an article without content is stored and has no
\* record, another has its two
C19_Witness ==
  /\ pc[1] = "done"
  /\ \E n \in news_items : n.content = << >> /\ PointsOf(n.url) = {}
  /\ \E n \in news_items : Cardinality(PointsOf(n.url)) = 2

\* C20: no well-formed entry of a fetched response is lost: each becomes a
\* candidate and is passed to process_article, whatever the other entries
\* of the response are.
C20_MalformedEntryIsolated ==
  \A r \in Runs : lost[r] = 0 /\ skipped[r] = {}

\* C21: for every date format (RFC-2822, ISO-8601, Unix epoch) and every raw
\* date value, missing, empty and unparseable ones included, date resolution
\* yields a timestamp and never raises: the fetcher returns one candidate with
\* a timestamp for every entry of the response, so no article and no source is
\* lost to a bad date.
\* Fails: _fetch_finnhub calls datetime.fromtimestamp outside any try, so a
\* truthy value that is no number in range raises and the fetch of the source
\* fails with it.
C21_DateResolutionNeverRaises ==
  ("dates" \in DOMAIN call /\ call.done) =>
    /\ ~call.raised
    /\ Len(call.published_at) = Len(call.dates)
    /\ \A i \in 1..Len(call.dates) :
         call.published_at[i] \in {"now", call.dates[i].value}

\* C22: when the credential of an API source is absent, fetching it sends no
\* request, returns an empty list and raises nothing: the step of the run at
\* that source is the step of an empty list (no error recorded, no handler
\* entered, no article processed, both stores untouched) and leaves the run at
\* the next source, or done after the last one; no request to the source is
\* ever on record.
NoCredential(r) ==
  pc[r] = "fetch" /\ SOURCES[src[r]].type = "api" /\ ~newsapi_key

SilentlySkipped(r) ==
  /\ requests'[r] = requests[r]
  /\ fetch_error'[r] = fetch_error[r]
  /\ articles'[r] = 0
  /\ src'[r] = src[r] + 1
  /\ pc'[r] = IF src[r] + 1 > NumSources THEN "done" ELSE "fetch"
  /\ skipped'[r] = skipped[r]
  /\ news_items' = news_items
  /\ points' = points

C22_MissingCredentialSkipsSource ==
  /\ [](\A r \in Runs : \A s \in requests[r] :
          SOURCES[s].type = "api" => newsapi_key)
  /\ [][\A r \in Runs : (NoCredential(r) /\ fetched'[r] # fetched[r]) =>
                         SilentlySkipped(r)]_vars

\* a run without the credential has gone through all its sources: the feeds
\* were requested, the API was visited and not requested
C22_Witness ==
  /\ ~newsapi_key
  /\ pc[1] = "done"
  /\ fetched[1] = 1..NumSources
  /\ requests[1] = {s \in 1..NumSources : SOURCES[s].type = "rss"}
  /\ requests[1] # {}

\* C23: every storage session is_duplicate or store_article opens is released
\* before the operation returns, on success and on every error path: no run
\* holds an open session in any state between two operations, in particular
\* not while a fetch, an embedding call or a vector-index call is in progress.
C23_NoSessionAcrossCalls ==
  \A r \in Runs : sessions[r] = 0

\* an embedding call is in progress after is_duplicate and store_article have
\* returned, and after an earlier article of the source has raised
C23_Witness ==
  \E r \in Runs : pc[r] = "embed" /\ article_error[r] # 0 /\ news_item[r] # None

\* C24: generation is pull-based and unbuffered: a chunk is asked of the
\* backend only while the consumer waits for the next event, after the
\* sources event and with the token event of every fragment produced so far
\* already emitted; and once the consumer has stopped reading, no further
\* chunk is asked of the backend and no further event is produced.
BackendPulled == backend_out' # backend_out

C24_PullBasedGeneration ==
  /\ [][BackendPulled =>
          /\ demand
          /\ chat_pc = "stream"
          /\ events # << >>
          /\ TokenTexts = SelectSeq(backend_out, HasText)]_vars
  /\ [][chat_pc = "abandoned" =>
          /\ chat_pc' = "abandoned"
          /\ backend_out' = backend_out
          /\ events' = events]_vars

\* the consumer has stopped reading after the token of the second fragment,
\* with the backend able to produce more
C24_Witness ==
  /\ chat_pc = "abandoned"
  /\ TokenTexts = <<"Hello", "world">>
  /\ Len(backend_out) < MaxFragments

\* C25: a chat request mutates nothing: no step of a request (retrieval, a
\* failure, an event of the stream, the consumer's pull or its abandoning the
\* stream) adds, changes or removes a record of the Article Store or of the
\* Vector Index, also while an ingestion run is writing to both.
ChatStep == chat_vars' # chat_vars

C25_ChatMutatesNothing ==
  [][ChatStep => /\ news_items' = news_items
                 /\ points' = points
                 /\ collection' = collection]_vars

\* a request has been abandoned in mid-stream, after retrieval found the
\* records an ingestion run had written, while the run is writing more
C25_Witness ==
  /\ chat_pc = "abandoned"
  /\ results # << >>
  /\ TokenTexts # << >>
  /\ pc[1] = "upsert_vectors"
  /\ news_items # {}

\* the later run, in which nothing has failed, returns from process_article
\* with no exception for an article whose content yields chunks (the same
\* content the Article Store holds for its URL, if it holds the URL)
LaterRunProcessed ==
  /\ pc[1] = "done"
  /\ article_error[2] = 0
  /\ pc[2] \in {"is_duplicate", "split_text", "upsert_vectors"}
  /\ split_text(article[2].content) # << >>
  /\ \A n \in news_items : n.url = article[2].url => n.content = article[2].content
  /\ Moves(2)
  /\ Returned(2)

\* C26: a failure of embedding or upsert does not leave an Article without
\* Chunk Vector Records for good: when a later run fetches the same article
\* and processes it with no failure, the article has records afterwards.
\* Fails: the Article row outlives the failure, so the later run's
\* is_duplicate answers True and process_article returns at once.
C26_LaterRunRepairs ==
  [][\A url \in URLs :
       (LaterRunProcessed /\ article[2].url = url) => PointsOf(url)' # {}]_vars

\* no process_article call is at work on the Article stored under url
Ended(url) ==
  /\ UrlStored(url)
  /\ \A r \in Runs : ~(news_item[r] # None /\ article[r].url = url)

\* C26, as the code has it: the records of an Article are written by the
\* process_article call that stored it and by no other: once that call has
\* ended, with or without a failure, no step of any run adds a record for
\* the Article, and a later run that fetches the article leaves
\* process_article at its duplicate check, without storing, chunking,
\* embedding or upserting, and with both stores as they were.
C26_FailedArticleStaysWithoutVectors ==
  /\ [][\A url \in URLs : Ended(url) => PointsOf(url)' = PointsOf(url)]_vars
  /\ [][(pc[1] = "done" /\ pc[2] = "is_duplicate" /\ UrlStored(article[2].url)
            /\ Moves(2)) =>
          /\ pc'[2] \notin {"store_article", "split_text", "embed", "upsert_vectors"}
          /\ points' = points
          /\ news_items' = news_items]_vars

\* the earlier run stored one article and failed on it; the later run has
\* fetched two articles, has returned from the stored one, which has chunks
\* and no records, and is at the second, which is not stored
C26_Witness ==
  /\ pc[1] = "done"
  /\ pc[2] = "is_duplicate" /\ idx[2] = 2
  /\ article_error[2] = 0
  /\ Cardinality(news_items) = 1
  /\ \A n \in news_items : split_text(n.content) # << >> /\ PointsOf(n.url) = {}
  /\ ~UrlStored(article[2].url)

\* C27: in every state of interleaved ingestion runs, every record of the
\* Vector Index refers to an Article of the Article Store: its source_id is
\* the identifier of a stored Article, and its url, title and category are
\* those the Article was stored under.
C27_VectorsReferToArticles ==
  \A i \in DOMAIN points :
    \E n \in news_items :
      /\ n.id = points[i].payload.source_id
      /\ n.url = points[i].payload.url
      /\ n.title = points[i].payload.title
      /\ n.category = points[i].payload.category

\* a run is past an insert the store rejected (it lost the race on a URL),
\* one stored Article has records in the index and another has none
C27_Witness ==
  /\ \E r \in Runs : pc[r] = "split_text" /\ news_item[r] = None
  /\ \E n \in news_items : PointsOf(n.url) # {}
  /\ \E n \in news_items : PointsOf(n.url) = {}

====
